---- MODULE Spec2Model ----
(***************************************************************************)
(* A model of the air-quality-ontario analysis pipeline: the numeric       *)
(* transforms of scripts/prepare_first_plot.py, 02_compute_features.py,    *)
(* 03_extremes_sensitivity.py, 04_trends.py and 06_stl_decomposition.py.   *)
(*                                                                         *)
(* Every stage of the pipeline is its own process invocation that reads    *)
(* tables and writes tables, so each script has its own specification      *)
(* (SpecPrepare, SpecFeatures, SpecExtremes, SpecTrends, SpecStl): Init    *)
(* draws the arguments of one call from bounded sets and one action per    *)
(* function applies it.                                                    *)
(*                                                                         *)
(* Numbers.  A float is carried exactly, as a reduced fraction <<n, d>>    *)
(* with d > 0; NaN (pandas' null) is the empty tuple, and +inf / -inf are  *)
(* <<1, 0>> and <<-1, 0>>.  Floating-point rounding is not modelled.       *)
(***************************************************************************)
EXTENDS Integers, Sequences, FiniteSets, TLC

VARIABLES
    call,             \* the function this run exercises
    pc,               \* "ready" | "done" | "raised"
    \* ---- prepare_first_plot.py
    raw_rows,         \* the file's rows (each a tuple of cells, a cell a text)
    max_scan_rows,    \* _detect_header_row: its parameter
    header_row,       \* _detect_header_row: the index returned
    error,            \* load_clean_long: the exception raised
    df_hourly,        \* the hourly table, rows [t |-> hour ordinal, v |-> value]
    min_valid_hours,  \* to_daily_mean: its parameter
    daily_mean,       \* to_daily_mean: the table returned, day -> value
    \* ---- 02_compute_features.py
    series,           \* rolling_zscore: s, one value per row
    window,           \* rolling_zscore: its parameter
    min_periods,      \* rolling_zscore: its parameter
    z,                \* rolling_zscore: the series returned
    cols,             \* main: the pollutants found in the merged table
    z_table,          \* main: z, one row per day, one value per column of cols
    dpbi,             \* main: the DPBI series
    \* ---- 03_extremes_sensitivity.py
    ext_series,       \* mark_extremes: series, one value per day
    q,                \* mark_extremes: the quantile, a fraction <<a, b>>
    extremes,         \* mark_extremes: the table returned
    flag_series,      \* yearly_counts: rows [date |-> days since 1970-01-01, flag |-> BOOLEAN]
    counts,           \* yearly_counts: the series returned, year -> count
    \* ---- 04_trends.py
    trend_series,     \* linear_slope / kendall_tau: series, one value per consecutive day
    slope,            \* linear_slope: the value returned
    kendall,          \* kendall_tau: the pair returned
    scipy_available,  \* whether `from scipy.stats import kendalltau` succeeds
    kendall_failed,   \* the series on which the call of kendalltau itself raised
    frame,            \* main: df, column name -> series
    trend_cols,       \* main: cols
    rows,             \* main: the summary rows collected so far
    trend_summary,    \* main: the rows written to trend_summary.csv
    \* ---- 06_stl_decomposition.py
    stl_input,        \* stl_one_series: s, rows [t |-> day, v |-> value] in the caller's order
    period_arg,       \* stl_one_series: the period asked for
    stl_period,       \* the period STL was constructed with (0: STL was not constructed)
    components,       \* stl_one_series: the table returned
    dpbi_csv,         \* main: df["DPBI"], rows [t |-> day, v |-> value] in file order
    years_left,       \* main: the years the per-year loop has still to visit
    written,          \* main: the files written, [kind |-> ..., year |-> ...] (year 0: full)
    stl_error         \* main: the exception that ended it ("" when none)

prepareVars == <<raw_rows, max_scan_rows, header_row, error, df_hourly, min_valid_hours,
                 daily_mean>>
featureVars == <<series, window, min_periods, z, cols, z_table, dpbi>>
extremeVars == <<ext_series, q, extremes, flag_series, counts>>
trendVars == <<trend_series, slope, kendall, scipy_available, kendall_failed,
               frame, trend_cols, rows, trend_summary>>
stlVars == <<stl_input, period_arg, stl_period, components,
             dpbi_csv, years_left, written, stl_error>>
vars == <<call, pc, prepareVars, featureVars, extremeVars, trendVars, stlVars>>

\* What a script leaves alone: the state of the other scripts.
notPrepareVars == <<featureVars, extremeVars, trendVars, stlVars>>
notFeatureVars == <<prepareVars, extremeVars, trendVars, stlVars>>
notExtremeVars == <<prepareVars, featureVars, trendVars, stlVars>>
notTrendVars == <<prepareVars, featureVars, extremeVars, stlVars>>
notStlVars == <<prepareVars, featureVars, extremeVars, trendVars>>

(***************************************************************************)
(* Exact arithmetic on floats                                              *)
(***************************************************************************)
NaN == <<>>
PosInf == <<1, 0>>
NegInf == <<-1, 0>>

IsNull(x) == x = NaN
IsInf(x) == x = PosInf \/ x = NegInf
IsFinite(x) == ~IsNull(x) /\ ~IsInf(x)

Abs(n) == IF n < 0 THEN -n ELSE n
Sign(n) == IF n < 0 THEN -1 ELSE IF n > 0 THEN 1 ELSE 0
Max(a, b) == IF a >= b THEN a ELSE b
Min(a, b) == IF a <= b THEN a ELSE b

RECURSIVE GCD(_, _)
GCD(a, b) == IF b = 0 THEN a ELSE GCD(b, a % b)

\* The fraction n/d (d # 0) in lowest terms with a positive denominator.
Frac(n, d) ==
    LET g == GCD(Abs(n), Abs(d))
        s == IF d < 0 THEN -1 ELSE 1
    IN  <<(s * n) \div g, (s * d) \div g>>

Num(i) == <<i, 1>>

\* IEEE-754 addition, subtraction, multiplication and division on the exact
\* values: NaN propagates, x / 0 is +-inf for x # 0 and NaN for x = 0.
FNeg(a) == IF IsNull(a) THEN NaN ELSE <<-a[1], a[2]>>

FAdd(a, b) ==
    IF IsNull(a) \/ IsNull(b) THEN NaN
    ELSE IF IsInf(a) /\ IsInf(b) THEN (IF a = b THEN a ELSE NaN)
    ELSE IF IsInf(a) THEN a
    ELSE IF IsInf(b) THEN b
    ELSE Frac(a[1] * b[2] + b[1] * a[2], a[2] * b[2])

FSub(a, b) == FAdd(a, FNeg(b))

FMul(a, b) ==
    IF IsNull(a) \/ IsNull(b) THEN NaN
    ELSE IF IsInf(a) \/ IsInf(b)
         THEN (IF a[1] = 0 \/ b[1] = 0 THEN NaN ELSE <<Sign(a[1]) * Sign(b[1]), 0>>)
    ELSE Frac(a[1] * b[1], a[2] * b[2])

FDiv(a, b) ==
    IF IsNull(a) \/ IsNull(b) THEN NaN
    ELSE IF IsInf(a) THEN (IF IsInf(b) THEN NaN
                           ELSE <<a[1] * (IF b[1] < 0 THEN -1 ELSE 1), 0>>)
    ELSE IF IsInf(b) THEN Num(0)
    ELSE IF b[1] = 0 THEN (IF a[1] = 0 THEN NaN ELSE <<Sign(a[1]), 0>>)
    ELSE Frac(a[1] * b[2], a[2] * b[1])

\* a >= b on floats: False whenever either side is NaN.
FGe(a, b) ==
    IF IsNull(a) \/ IsNull(b) THEN FALSE
    ELSE IF IsInf(a) \/ IsInf(b)
         THEN (IF a = b THEN TRUE
               ELSE IF a = PosInf \/ b = NegInf THEN TRUE ELSE FALSE)
    ELSE a[1] * b[2] >= b[1] * a[2]

RECURSIVE SumSeq(_)
SumSeq(s) == IF s = <<>> THEN Num(0) ELSE FAdd(Head(s), SumSeq(Tail(s)))

\* The non-null entries of a sequence of floats, in order (Series.dropna on
\* the values).
RECURSIVE NonNull(_)
NonNull(s) ==
    IF s = <<>> THEN <<>>
    ELSE IF IsNull(Head(s)) THEN NonNull(Tail(s))
    ELSE <<Head(s)>> \o NonNull(Tail(s))

\* pandas' mean: the sum of the non-null values over their number, NaN when
\* there is none.
NanMean(s) ==
    LET v == NonNull(s)
    IN  IF Len(v) = 0 THEN NaN ELSE FDiv(SumSeq(v), Num(Len(v)))

(***************************************************************************)
(* Text: a string is a tuple of one-character strings                      *)
(***************************************************************************)
UpperChars == <<"A","B","C","D","E","F","G","H","I","J","K","L","M",
                "N","O","P","Q","R","S","T","U","V","W","X","Y","Z">>
LowerChars == <<"a","b","c","d","e","f","g","h","i","j","k","l","m",
                "n","o","p","q","r","s","t","u","v","w","x","y","z">>

LowerChar(c) ==
    IF \E i \in 1..26 : UpperChars[i] = c
    THEN LowerChars[CHOOSE i \in 1..26 : UpperChars[i] = c]
    ELSE c

\* str.lower
StrLower(s) == [i \in 1..Len(s) |-> LowerChar(s[i])]

UpperChar(c) ==
    IF \E i \in 1..26 : LowerChars[i] = c
    THEN UpperChars[CHOOSE i \in 1..26 : LowerChars[i] = c]
    ELSE c

\* str.upper
StrUpper(s) == [i \in 1..Len(s) |-> UpperChar(s[i])]

Digits == <<"0","1","2","3","4","5","6","7","8","9">>
IsDigit(c) == \E i \in 1..10 : Digits[i] = c
DigitValue(c) == (CHOOSE i \in 1..10 : Digits[i] = c) - 1
AllDigits(s) == s # <<>> /\ \A i \in 1..Len(s) : IsDigit(s[i])

\* int() of a string of digits
RECURSIVE ParseInt(_)
ParseInt(s) ==
    IF s = <<>> THEN 0
    ELSE 10 * ParseInt(SubSeq(s, 1, Len(s) - 1)) + DigitValue(s[Len(s)])

IsSpace(c) == c \in {" ", "\t"}

\* str.strip: leading and trailing whitespace removed
RECURSIVE LStrip(_)
LStrip(s) == IF s # <<>> /\ IsSpace(Head(s)) THEN LStrip(Tail(s)) ELSE s
RECURSIVE RStrip(_)
RStrip(s) ==
    IF s # <<>> /\ IsSpace(s[Len(s)]) THEN RStrip(SubSeq(s, 1, Len(s) - 1)) ELSE s
StrStrip(s) == LStrip(RStrip(s))

\* str.startswith
StartsWith(s, prefix) ==
    Len(s) >= Len(prefix) /\ SubSeq(s, 1, Len(prefix)) = prefix

(***************************************************************************)
(* Program constants, and the state of a script that is not running        *)
(***************************************************************************)
DefaultMaxScanRows == 40
FallbackHeaderRow == 11
HoursPerDay == 24
DefaultMinValidHours == 18
WINDOW == 90
MIN_PERIODS == 30
EpochYear == 1970
MinTrendSamples == 10
MinPeriod == 7
FullPeriod == 365
YearPeriod == 30
MinYearSamples == 60
POLLUTANTS == <<"SO2", "NO2", "O3", "PM25">>

\* The calendar pandas' timestamps follow.
IsLeapYear(y) == (y % 4 = 0 /\ y % 100 # 0) \/ y % 400 = 0
DaysInYear(y) == IF IsLeapYear(y) THEN 366 ELSE 365

\* No exception: the type, the fixed text, and the header row and the column
\* list a message holds.
NoError == [type |-> "", text |-> "", header_row |-> {}, columns |-> {}]

IdlePrepare ==
    /\ raw_rows = <<>> /\ max_scan_rows = DefaultMaxScanRows /\ header_row = -1
    /\ error = NoError
    /\ df_hourly = <<>> /\ min_valid_hours = DefaultMinValidHours /\ daily_mean = <<>>

IdleFeatures ==
    /\ series = <<>> /\ window = WINDOW /\ min_periods = MIN_PERIODS /\ z = <<>>
    /\ cols = <<>> /\ z_table = <<>> /\ dpbi = <<>>

IdleExtremes ==
    /\ ext_series = <<>> /\ q = <<0, 1>> /\ extremes = <<>>
    /\ flag_series = <<>> /\ counts = <<>>

IdleTrends ==
    /\ trend_series = <<>> /\ slope = <<>> /\ kendall = <<>>
    /\ scipy_available = TRUE /\ kendall_failed = {}
    /\ frame = <<>> /\ trend_cols = <<>> /\ rows = <<>> /\ trend_summary = <<>>

IdleStl ==
    /\ stl_input = <<>> /\ period_arg = FullPeriod /\ stl_period = 0 /\ components = <<>>
    /\ dpbi_csv = <<>> /\ years_left = <<>> /\ written = {} /\ stl_error = ""

(***************************************************************************)
(* prepare_first_plot.py: _detect_header_row                               *)
(***************************************************************************)
\* The literals the rules look for.
LitDate == <<"d","a","t","e">>
LitH01 == <<"h","0","1">>
LitStationId == <<"s","t","a","t","i","o","n"," ","i","d">>

\* pd.read_csv(filepath, header=None, nrows=max_scan_rows): the leading rows.
ReadHead(file, nrows) == SubSeq(file, 1, Min(nrows, Len(file)))

\* tmp.iloc[i].astype(str).str.strip().str.lower()
NormRow(row) == [k \in 1..Len(row) |-> StrLower(StrStrip(row[k]))]

AnyStartsWith(row, prefix) == \E k \in 1..Len(row) : StartsWith(row[k], prefix)

\* The first loop: the 0-based index of the first row from i on holding a
\* cell that starts with 'date' and a cell that starts with 'h01'; -1 when
\* the loop ends without returning.
RECURSIVE ScanDateHour(_, _)
ScanDateHour(t, i) ==
    IF i > Len(t) THEN -1
    ELSE IF AnyStartsWith(NormRow(t[i]), LitDate) /\ AnyStartsWith(NormRow(t[i]), LitH01)
         THEN i - 1
    ELSE ScanDateHour(t, i + 1)

\* The second loop: one plus the 0-based index of the first row from i on
\* with a cell equal to 'station id'; -1 when the loop ends without returning.
RECURSIVE ScanStationId(_, _)
ScanStationId(t, i) ==
    IF i > Len(t) THEN -1
    ELSE IF \E k \in 1..Len(t[i]) : NormRow(t[i])[k] = LitStationId
         THEN (i - 1) + 1
    ELSE ScanStationId(t, i + 1)

\* A variant that lets the station-id rule win over the date/hour rule.
DetectHeaderRow_StationFirst(file, nrows) ==
    LET t == ReadHead(file, nrows)
        first == ScanDateHour(t, 1)
        second == ScanStationId(t, 1)
    IN  IF second # -1 THEN second
        ELSE IF first # -1 THEN first
        ELSE FallbackHeaderRow

DetectHeaderRow(file, nrows) ==
    LET t == ReadHead(file, nrows)
        first == ScanDateHour(t, 1)
        second == ScanStationId(t, 1)
    IN  IF first # -1 THEN first
        ELSE IF second # -1 THEN second
        ELSE FallbackHeaderRow

\* Rows a raw export can hold above and at its header.
RowHeader == << <<"D","a","t","e">>, <<"H","0","1">>, <<"H","0","2">> >>
RowHeaderPadded == << <<" ","D","A","T","E"," ","(","L","S","T",")"," ">>,
                      <<" ","h","0","1"," ">> >>
RowDateOnly == << <<"D","a","t","e">>, <<"x">> >>
RowHourOnly == << <<"x">>, <<"H","0","1">> >>
RowStation == << <<"S","t","a","t","i","o","n"," ","I","D">>, <<"x">> >>
RowStationPadded == << <<"x">>, <<"\t","S","T","A","T","I","O","N"," ","I","D"," ">> >>
RowStationColon == << <<"S","t","a","t","i","o","n"," ","I","D",":">>, <<"x">> >>
RowFiller == << <<"x">>, <<>> >>

RowKinds == {RowHeader, RowHeaderPadded, RowDateOnly, RowHourOnly, RowStation,
             RowStationPadded, RowStationColon, RowFiller}

MaxFileRows == 4
MaxScanArg == 2
ScanChoices == (1..MaxScanArg) \cup {DefaultMaxScanRows}

(***************************************************************************)
(* prepare_first_plot.py: to_daily_mean                                    *)
(***************************************************************************)
\* The calendar day of an hourly timestamp (hours since the first midnight).
DayOf(t) == t \div HoursPerDay

\* resample('D'): one bin per calendar day from the first row's day to the
\* last row's (the rows are sorted by timestamp); no bin for an empty table.
ResampleDays(df) ==
    IF df = <<>> THEN {} ELSE DayOf(df[1].t)..DayOf(df[Len(df)].t)

\* The values of the rows of one bin, in order.
RECURSIVE BinValues(_, _)
BinValues(df, d) ==
    IF df = <<>> THEN <<>>
    ELSE (IF DayOf(Head(df).t) = d THEN <<Head(df).v>> ELSE <<>>)
         \o BinValues(Tail(df), d)

\* resample('D').count(): the number of non-null values of each bin.
ResampleCount(df) == [d \in ResampleDays(df) |-> Len(NonNull(BinValues(df, d)))]

\* resample('D').mean(): the mean of the non-null values of each bin.
ResampleMean(df) == [d \in ResampleDays(df) |-> NanMean(BinValues(df, d))]

\* A variant that also discards a day holding exactly min_valid values.
ToDailyMean_Inclusive(df, min_valid) ==
    [d \in ResampleDays(df) |->
        IF ResampleCount(df)[d] <= min_valid THEN NaN ELSE ResampleMean(df)[d]]

ToDailyMean(df, min_valid) ==
    LET valid_counts == ResampleCount(df)
        means == ResampleMean(df)
    IN  [d \in ResampleDays(df) |->
            IF valid_counts[d] < min_valid THEN NaN ELSE means[d]]

MaxHourlyRows == 3
MaxMinValidArg == 3
HourSamples == {0, 23, 24, 72}
ReadingSamples == {NaN, Num(1), Num(4), Num(1000)}
HourlyRows == [t : HourSamples, v : ReadingSamples]
MinValidChoices == (0..MaxMinValidArg) \cup {DefaultMinValidHours}

SortedByTime(df) == \A i \in 1..(Len(df) - 1) : df[i].t <= df[i + 1].t

(***************************************************************************)
(* prepare_first_plot.py: load_clean_long                                  *)
(*                                                                         *)
(* A cell of the table read is [str |-> text, num |-> number]: text cells  *)
(* have num = NaN, numeric cells have str = <<>>, and the null cell has    *)
(* both empty.                                                             *)
(***************************************************************************)
MISSING == {Num(9999), Num(-999), Num(-9999)}

NullCell == [str |-> <<>>, num |-> NaN]
IsNullCell(c) == c = NullCell

\* read_csv's reading of one data cell: empty is null, an integer literal
\* is a number, anything else stays text.
ParseCell(text) ==
    IF text = <<>> THEN NullCell
    ELSE IF AllDigits(text) THEN [str |-> <<>>, num |-> Num(ParseInt(text))]
    ELSE IF Head(text) = "-" /\ AllDigits(Tail(text))
         THEN [str |-> <<>>, num |-> Num(-ParseInt(Tail(text)))]
    ELSE [str |-> text, num |-> NaN]

\* read_csv's name for column k (0-based) of the header row: the cell, or
\* 'Unnamed: k' for an empty cell.
HeaderName(cell, k) ==
    IF cell = <<>> THEN <<"U","n","n","a","m","e","d",":"," ">> \o <<Digits[k + 1]>>
    ELSE cell

\* pd.read_csv(filepath, header=header_row) raises when the file has no
\* row of that index.
ReadCsvRaises(file, hdr) == hdr + 1 > Len(file)

\* df.columns after `df.columns = df.columns.astype(str).str.strip()`
LoadColumns(file, hdr) ==
    [k \in 1..Len(file[hdr + 1]) |-> StrStrip(HeaderName(file[hdr + 1][k], k - 1))]

\* df as read: the rows below the header, cell by cell.
LoadRows(file, hdr) ==
    [i \in 1..(Len(file) - (hdr + 1)) |->
        [k \in 1..Len(file[hdr + 1 + i]) |-> ParseCell(file[hdr + 1 + i][k])]]

\* The loop of lines 51-56: the position of the first column whose name,
\* lower-cased and stripped, starts with 'date'; 0 for date_col = None.
RECURSIVE FindDateCol(_, _)
FindDateCol(columns, k) ==
    IF k > Len(columns) THEN 0
    ELSE IF StartsWith(StrStrip(StrLower(columns[k])), LitDate) THEN k
    ELSE FindDateCol(columns, k + 1)

\* hour_cols: the positions of the columns whose name, stripped and
\* upper-cased, starts with 'H'.
HourCols(columns) ==
    SelectSeq([k \in 1..Len(columns) |-> k],
              LAMBDA k : StartsWith(StrUpper(StrStrip(columns[k])), <<"H">>))

\* df.replace(MISSING, np.nan)
ReplaceMissing(table) ==
    [i \in 1..Len(table) |->
        [k \in 1..Len(table[i]) |->
            IF table[i][k].num \in MISSING THEN NullCell ELSE table[i][k]]]

\* df.drop_duplicates(): a row equal in every column to an earlier row is
\* dropped (nulls compare equal).
DropDuplicates(table) ==
    LET keep == SelectSeq([i \in 1..Len(table) |-> i],
                          LAMBDA i : \A j \in 1..(i - 1) : table[j] # table[i])
    IN  [n \in 1..Len(keep) |-> table[keep[n]]]

\* df.dropna(subset=hour_cols, how='all')
DropRowsAllMissing(table, hours) ==
    SelectSeq(table, LAMBDA row : \E h \in 1..Len(hours) : ~IsNullCell(row[hours[h]]))

\* pd.to_datetime(..., errors='coerce') of a date cell, as days since
\* 1970-01-01: a text 'YYYY-MM-DD' naming a day of the calendar, else NaT.
NaT == -1

MonthLength(y, m) ==
    IF m = 2 THEN (IF IsLeapYear(y) THEN 29 ELSE 28)
    ELSE IF m \in {4, 6, 9, 11} THEN 30 ELSE 31

RECURSIVE DaysBeforeYear(_)
DaysBeforeYear(y) ==
    IF y <= EpochYear THEN 0 ELSE DaysBeforeYear(y - 1) + DaysInYear(y - 1)

RECURSIVE DaysBeforeMonth(_, _)
DaysBeforeMonth(y, m) ==
    IF m <= 1 THEN 0 ELSE DaysBeforeMonth(y, m - 1) + MonthLength(y, m - 1)

IsIsoDate(text) ==
    /\ Len(text) = 10 /\ text[5] = "-" /\ text[8] = "-"
    /\ AllDigits(SubSeq(text, 1, 4)) /\ AllDigits(SubSeq(text, 6, 7))
    /\ AllDigits(SubSeq(text, 9, 10))
    /\ ParseInt(SubSeq(text, 1, 4)) >= EpochYear
    /\ ParseInt(SubSeq(text, 6, 7)) \in 1..12
    /\ ParseInt(SubSeq(text, 9, 10)) \in
          1..MonthLength(ParseInt(SubSeq(text, 1, 4)), ParseInt(SubSeq(text, 6, 7)))

ToDatetime(cell) ==
    IF IsIsoDate(cell.str)
    THEN LET y == ParseInt(SubSeq(cell.str, 1, 4))
             m == ParseInt(SubSeq(cell.str, 6, 7))
             d == ParseInt(SubSeq(cell.str, 9, 10))
         IN  DaysBeforeYear(y) + DaysBeforeMonth(y, m) + (d - 1)
    ELSE NaT

\* str.extract(r'H(\d+)'): the digits after the first 'H' that a digit
\* follows; no match gives a null, on which astype(int) raises.
HourMatches(name) ==
    {i \in 1..(Len(name) - 1) : name[i] = "H" /\ IsDigit(name[i + 1])}

RECURSIVE TakeDigits(_)
TakeDigits(s) ==
    IF s # <<>> /\ IsDigit(Head(s)) THEN <<Head(s)>> \o TakeDigits(Tail(s)) ELSE <<>>

ExtractHour(name) ==
    LET i == CHOOSE x \in HourMatches(name) : \A y \in HourMatches(name) : x <= y
    IN  ParseInt(TakeDigits(SubSeq(name, i + 1, Len(name))))

\* long[date_col] + pd.to_timedelta(long['Hour'], unit='h'), in hours since
\* 1970-01-01 00:00.
Datetime(date, hour) == IF date = NaT THEN NaT ELSE date * HoursPerDay + hour

\* df.melt(id_vars=[date_col], value_vars=hour_cols) with lines 75-79: one
\* row per hour column and table row, column by column, without the date
\* and hour columns.
Melt(table, columns, date_col, hours) ==
    [j \in 1..(Len(hours) * Len(table)) |->
        LET h == hours[((j - 1) \div Len(table)) + 1]
            row == table[((j - 1) % Len(table)) + 1]
        IN  [t |-> Datetime(ToDatetime(row[date_col]), ExtractHour(columns[h]) - 1),
             v |-> row[h].num]]

\* sort_values('Datetime'): the rows in ascending order of timestamp; the
\* order of rows of equal timestamp is not fixed by the default sort.
RECURSIVE SortValuesFrom(_, _)
SortValuesFrom(m, I) ==
    IF I = {} THEN {<<>>}
    ELSE UNION {{<<m[i]>> \o rest : rest \in SortValuesFrom(m, I \ {i})} :
                  i \in {x \in I : \A y \in I : m[x].t <= m[y].t}}

SortValues(m) == SortValuesFrom(m, 1..Len(m))

\* The exceptions of load_clean_long: the type, the fixed text, and the
\* header row and the column list when the message holds them.
ParserError(hdr) ==
    [type |-> "ParserError", text |-> "Passed header but too few lines in file",
     header_row |-> {hdr}, columns |-> {}]
KeyErrorNoDate(hdr, columns) ==
    [type |-> "KeyError", text |-> "Could not find a 'Date' column in the header.",
     header_row |-> {hdr}, columns |-> {columns}]
KeyErrorNoHour(hdr, columns) ==
    [type |-> "KeyError", text |-> "No hour columns found (expected H01..H24).",
     header_row |-> {}, columns |-> {columns}]
IntCastError == [type |-> "ValueError", text |-> "", header_row |-> {}, columns |-> {}]

\* load_clean_long up to the sort: the header row detected, the exception
\* raised (NoError when none) and the melted rows.
LoadCleanLong(file) ==
    LET hdr == DetectHeaderRow(file, DefaultMaxScanRows)
    IN  IF ReadCsvRaises(file, hdr)
        THEN [header_row |-> hdr, error |-> ParserError(hdr), long |-> <<>>]
        ELSE
        LET columns == LoadColumns(file, hdr)
            date_col == FindDateCol(columns, 1)
            deduped == DropDuplicates(ReplaceMissing(LoadRows(file, hdr)))
            hour_cols == HourCols(columns)
            table == DropRowsAllMissing(deduped, hour_cols)
        IN  IF date_col = 0
            THEN [header_row |-> hdr, error |-> KeyErrorNoDate(hdr, columns), long |-> <<>>]
            ELSE IF hour_cols = <<>>
            THEN [header_row |-> hdr, error |-> KeyErrorNoHour(hdr, columns), long |-> <<>>]
            ELSE IF /\ table # <<>>
                    /\ \E h \in 1..Len(hour_cols) : HourMatches(columns[hour_cols[h]]) = {}
            THEN [header_row |-> hdr, error |-> IntCastError, long |-> <<>>]
            ELSE [header_row |-> hdr, error |-> NoError,
                  long |-> Melt(table, columns, date_col, hour_cols)]

(***************************************************************************)
(* prepare_first_plot.py: the specification                                *)
(***************************************************************************)
\* Rows of an export, three cells wide: above the header, the header, and
\* below it.
PreStation == << <<"S","t","a","t","i","o","n"," ","I","D">>, <<"x">>, <<>> >>
PreFiller == << <<"x">>, <<>>, <<>> >>
PreambleKinds == {PreStation, PreFiller}

HdrPlain == << <<"D","a","t","e">>, <<"H","0","1">>, <<"H","0","2">> >>
HdrPadded == << <<" ","D","A","T","E"," ","(","L","S","T",")"," ">>,
                <<" ","H","0","1">>, <<"H","0","2"," ">> >>
HdrLower == << <<"d","a","t","e">>, <<"h","0","1">>, <<"h","0","2">> >>
HdrNoDate == << <<"D","a","y">>, <<"H","0","1">>, <<"H","0","2">> >>
HdrNoHour == << <<"D","a","t","e">>, <<"S","i","t","e">>, <<"V","a","l","u","e">> >>
HdrSite == << <<"D","a","t","e">>, <<"S","i","t","e">>, <<"H","0","1">> >>
HeaderKinds == {HdrPlain, HdrPadded, HdrLower, HdrNoDate, HdrNoHour, HdrSite}

Day1 == <<"2","0","2","1","-","0","1","-","0","1">>
Day2 == <<"2","0","2","1","-","0","1","-","0","2">>
DataKinds == { <<Day1, <<"1">>, <<"4">> >>,
               <<Day1, <<"1">>, <<"9","9","9","9">> >>,
               <<Day1, <<"1">>, <<"-","9","9","9">> >>,
               <<Day1, <<"9","9","9","9">>, <<"-","9","9","9","9">> >>,
               <<Day2, <<"4">>, <<>> >> }

MaxPreambleRows == 2
MaxDataRows == 2

\* An export: rows above the header, a header row, data rows.
ExportFile(pre, hdr, data) == pre \o <<hdr>> \o data

InitPrepare ==
    /\ pc = "ready"
    /\ header_row = -1
    /\ error = NoError
    /\ daily_mean = <<>>
    /\ \/ /\ call = "_detect_header_row"
          /\ \E k \in 0..MaxFileRows : raw_rows \in [1..k -> RowKinds]
          /\ max_scan_rows \in ScanChoices
          /\ df_hourly = <<>>
          /\ min_valid_hours = DefaultMinValidHours
       \/ /\ call = "main_prepare"
          /\ \E a \in 0..MaxPreambleRows : \E b \in 0..MaxDataRows :
             \E pre \in [1..a -> PreambleKinds] : \E hdr \in HeaderKinds :
             \E data \in [1..b -> DataKinds] :
                raw_rows = ExportFile(pre, hdr, data)
          /\ max_scan_rows = DefaultMaxScanRows
          /\ df_hourly = <<>>
          /\ min_valid_hours = DefaultMinValidHours
       \/ /\ call = "to_daily_mean"
          /\ \E k \in 0..MaxHourlyRows :
                \E df \in [1..k -> HourlyRows] : SortedByTime(df) /\ df_hourly = df
          /\ min_valid_hours \in MinValidChoices
          /\ raw_rows = <<>>
          /\ max_scan_rows = DefaultMaxScanRows
    /\ IdleFeatures /\ IdleExtremes /\ IdleTrends /\ IdleStl

CallDetectHeaderRow ==
    /\ call = "_detect_header_row" /\ pc = "ready"
    /\ header_row' = DetectHeaderRow(raw_rows, max_scan_rows)
    /\ pc' = "done"
    /\ UNCHANGED <<call, raw_rows, max_scan_rows, error, df_hourly, min_valid_hours, daily_mean>>
    /\ UNCHANGED notPrepareVars

CallToDailyMean ==
    /\ call = "to_daily_mean" /\ pc = "ready"
    /\ daily_mean' = ToDailyMean(df_hourly, min_valid_hours)
    /\ pc' = "done"
    /\ UNCHANGED <<call, raw_rows, max_scan_rows, header_row, error, df_hourly, min_valid_hours>>
    /\ UNCHANGED notPrepareVars

\* main, line 108: load_clean_long returns the hourly table.
MainLoadCleanLong ==
    /\ call = "main_prepare" /\ pc = "ready"
    /\ LoadCleanLong(raw_rows).error = NoError
    /\ header_row' = LoadCleanLong(raw_rows).header_row
    /\ df_hourly' \in SortValues(LoadCleanLong(raw_rows).long)
    /\ pc' = "loaded"
    /\ UNCHANGED <<call, raw_rows, max_scan_rows, error, min_valid_hours, daily_mean>>
    /\ UNCHANGED notPrepareVars

\* main, line 108: load_clean_long raises, which ends main.
LoadCleanLongRaises ==
    /\ call = "main_prepare" /\ pc = "ready"
    /\ LoadCleanLong(raw_rows).error # NoError
    /\ header_row' = LoadCleanLong(raw_rows).header_row
    /\ error' = LoadCleanLong(raw_rows).error
    /\ pc' = "raised"
    /\ UNCHANGED <<call, raw_rows, max_scan_rows, df_hourly, min_valid_hours, daily_mean>>
    /\ UNCHANGED notPrepareVars

\* main, line 109: to_daily_mean(h) with the default threshold.
MainToDailyMean ==
    /\ call = "main_prepare" /\ pc = "loaded"
    /\ daily_mean' = ToDailyMean(df_hourly, min_valid_hours)
    /\ pc' = "done"
    /\ UNCHANGED <<call, raw_rows, max_scan_rows, header_row, error, df_hourly, min_valid_hours>>
    /\ UNCHANGED notPrepareVars

NextPrepare ==
    \/ CallDetectHeaderRow \/ CallToDailyMean
    \/ MainLoadCleanLong \/ LoadCleanLongRaises \/ MainToDailyMean

SpecPrepare == InitPrepare /\ [][NextPrepare]_vars

(***************************************************************************)
(* prepare_first_plot.py: properties                                       *)
(***************************************************************************)
\* The rows of df_hourly that fall on day d and hold a reading.
ValidRowsOfDay(d) ==
    {i \in 1..Len(df_hourly) :
        /\ df_hourly[i].t >= d * HoursPerDay
        /\ df_hourly[i].t < (d + 1) * HoursPerDay
        /\ df_hourly[i].v # NaN}

\* Every day an hourly timestamp of the model can fall on, and one more.
SampleDays == 0..(DayOf(CHOOSE t \in HourSamples : \A u \in HourSamples : u <= t) + 1)

RECURSIVE SumOfReadings(_)
SumOfReadings(S) ==
    IF S = {} THEN 0
    ELSE LET i == CHOOSE x \in S : TRUE
         IN  df_hourly[i].v[1] + SumOfReadings(S \ {i})

\* C1: to_daily_mean returns one entry per calendar day from the first to
\* the last row; the entry is null when the day has fewer than
\* min_valid_hours non-null readings, whatever their magnitude, and
\* otherwise the arithmetic mean of the day's non-null readings (null when
\* there is no reading to average).
C1_DailyMeanThreshold ==
    (call = "to_daily_mean" /\ pc = "done") =>
        /\ DOMAIN daily_mean =
              {d \in SampleDays :
                  /\ \E i \in 1..Len(df_hourly) : df_hourly[i].t < (d + 1) * HoursPerDay
                  /\ \E i \in 1..Len(df_hourly) : df_hourly[i].t >= d * HoursPerDay}
        /\ \A d \in DOMAIN daily_mean :
              LET n == Cardinality(ValidRowsOfDay(d))
              IN  IF n < min_valid_hours \/ n = 0
                  THEN daily_mean[d] = NaN
                  ELSE /\ daily_mean[d] # NaN
                       /\ daily_mean[d][2] > 0
                       /\ daily_mean[d][1] * n
                            = daily_mean[d][2] * SumOfReadings(ValidRowsOfDay(d))

\* C1 witness: one call in which a day with a single reading of 1000 is
\* discarded (1 < min_valid_hours) while a day with enough readings keeps
\* its mean, (1 + 4) / 2.
C1_Witness ==
    /\ call = "to_daily_mean" /\ pc = "done"
    /\ min_valid_hours = 2
    /\ \E i \in 1..Len(df_hourly) : df_hourly[i] = [t |-> 72, v |-> Num(1000)]
    /\ 3 \in DOMAIN daily_mean /\ daily_mean[3] = NaN
    /\ 0 \in DOMAIN daily_mean /\ daily_mean[0] = <<5, 2>>

\* What each kind of row holds, stated row by row.
HasDateAndHour(row) == row \in {RowHeader, RowHeaderPadded}
HasStationId(row) == row \in {RowStation, RowStationPadded}

ScannedRows == 0..(Min(max_scan_rows, Len(raw_rows)) - 1)
DateHourRows == {i \in ScannedRows : HasDateAndHour(raw_rows[i + 1])}
StationIdRows == {i \in ScannedRows : HasStationId(raw_rows[i + 1])}
Least(S) == CHOOSE x \in S : \A y \in S : x <= y

\* C10: over the first max_scan_rows rows, _detect_header_row returns the
\* index of the first row with a 'date' cell and an 'h01' cell; only when
\* there is none, one plus the index of the first row with a 'station id'
\* cell; only when there is none either, 11.
C10_HeaderRulePriority ==
    (call = "_detect_header_row" /\ pc = "done") =>
        header_row =
            IF DateHourRows # {} THEN Least(DateHourRows)
            ELSE IF StationIdRows # {} THEN Least(StationIdRows) + 1
            ELSE FallbackHeaderRow

\* C10 witness: a station-id row comes before the date/hour row, and the
\* date/hour row's index is returned, not the row after the station-id row.
C10_Witness ==
    /\ call = "_detect_header_row" /\ pc = "done"
    /\ \E i \in StationIdRows : \E j \in DateHourRows :
          i + 1 < j /\ header_row = j /\ j = Least(DateHourRows)

\* The header row load_clean_long read, and what it lacks, stated kind by
\* kind.
DetectedHeader == raw_rows[header_row + 1]
HeaderRead == call = "main_prepare" /\ pc # "ready" /\ header_row + 1 <= Len(raw_rows)
LacksDateColumn == DetectedHeader \in {PreStation, PreFiller, HdrNoDate}
LacksHourColumn == DetectedHeader \in {PreStation, PreFiller, HdrNoHour}

\* The error the claim describes: a KeyError of the given text that names
\* the detected header row and the columns, and no table.
DescriptiveKeyError(text) ==
    /\ pc = "raised" /\ df_hourly = <<>>
    /\ error.type = "KeyError" /\ error.text = text
    /\ error.header_row = {header_row}
    /\ error.columns = {LoadColumns(raw_rows, header_row)}

\* C11: load_clean_long raises and returns no table when the detected
\* header has no date column, and likewise when it has no hour column; both
\* errors name the detected header row and the columns; a header lacking
\* both gets the date error.
C11_DescriptiveErrors ==
    HeaderRead =>
        /\ LacksDateColumn =>
              DescriptiveKeyError("Could not find a 'Date' column in the header.")
        /\ (LacksHourColumn /\ ~LacksDateColumn) =>
              DescriptiveKeyError("No hour columns found (expected H01..H24).")

\* C13: the hourly table load_clean_long hands to to_daily_mean holds no
\* timestamp twice, and no day has more rows than the 24 hours of a day.
C13_NoDuplicateTimestamps ==
    (call = "main_prepare" /\ pc \in {"loaded", "done"}) =>
        /\ \A i \in 1..Len(df_hourly) : \A j \in 1..Len(df_hourly) :
              i # j => df_hourly[i].t # df_hourly[j].t
        /\ \A k \in 1..Len(df_hourly) :
              Cardinality({i \in 1..Len(df_hourly) :
                              DayOf(df_hourly[i].t) = DayOf(df_hourly[k].t)}) <= HoursPerDay

(***************************************************************************)
(* 02_compute_features.py: rolling_zscore                                  *)
(*                                                                         *)
(* A standard deviation and a z-score are irrational in general.  The      *)
(* model carries the standard deviation as its square (the variance) and   *)
(* a z-score z as sign(z) * z^2, which determines z.                       *)
(***************************************************************************)
\* s.rolling(window, min_periods=min_periods): pandas refuses a negative
\* window, a negative min_periods and min_periods > window (ValueError).
RollingArgsValid(w, minp) == w >= 0 /\ minp >= 0 /\ minp <= w

\* The values of the window of row t: the last w rows ending at t.
WindowValues(s, t, w) == SubSeq(s, Max(1, t - w + 1), t)

\* rolling(...).mean() at row t: defined when the window holds at least
\* min_periods (and at least one) non-null values.
RollingMean(s, t, w, minp) ==
    LET v == NonNull(WindowValues(s, t, w))
    IN  IF Len(v) >= minp /\ Len(v) > 0 THEN FDiv(SumSeq(v), Num(Len(v))) ELSE NaN

\* The squares of the deviations of the values v from m.
SquaredDeviations(v, m) == [i \in 1..Len(v) |-> FMul(FSub(v[i], m), FSub(v[i], m))]

\* rolling(...).std(ddof=0) at row t, as its square: the mean squared
\* deviation of the window's non-null values, under the same condition.
RollingVar(s, t, w, minp) ==
    LET v == NonNull(WindowValues(s, t, w))
        m == FDiv(SumSeq(v), Num(Len(v)))
    IN  IF Len(v) >= minp /\ Len(v) > 0
        THEN FDiv(SumSeq(SquaredDeviations(v, m)), Num(Len(v)))
        ELSE NaN

\* a / sqrt(v) as a signed square: sign(a) * a^2 / v, with the float
\* division's results for v = 0.
DivByRoot(a, v) ==
    IF IsNull(a) \/ IsNull(v) THEN NaN
    ELSE FDiv(FMul(a, <<Abs(a[1]), a[2]>>), v)

\* A variant whose window misses the current row (rows t-w .. t-1).
RollingZscore_Lagged(s, w, minp) ==
    [t \in 1..Len(s) |->
        DivByRoot(FSub(s[t], RollingMean(s, t - 1, w, minp)),
                  RollingVar(s, t - 1, w, minp))]

RollingZscore(s, w, minp) ==
    [t \in 1..Len(s) |->
        LET mu == RollingMean(s, t, w, minp)
            sd == RollingVar(s, t, w, minp)
        IN  DivByRoot(FSub(s[t], mu), sd)]

MaxSeriesLen == 4
MaxWindowArg == 3
SeriesSamples == {NaN, Num(1), Num(2), Num(5)}
WindowChoices == (0..MaxWindowArg) \cup {WINDOW}
MinPeriodsChoices == (0..(MaxWindowArg + 1)) \cup {MIN_PERIODS}

(***************************************************************************)
(* 02_compute_features.py: main, the DPBI                                  *)
(***************************************************************************)
\* cols = [c for c in POLLUTANTS if c in df.columns]
PresentColumns(columns) == SelectSeq(POLLUTANTS, LAMBDA c : c \in columns)

\* A variant that averages over every column, so that one null z-score
\* makes the day's index null (mean(axis=1, skipna=False)).
ComputeDpbi_NoSkip(zt) ==
    [t \in 1..Len(zt) |->
        IF Len(zt[t]) = 0 THEN NaN ELSE FDiv(SumSeq(zt[t]), Num(Len(zt[t])))]

\* dpbi = z[z_cols].mean(axis=1): the mean of each row's non-null z-scores.
ComputeDpbi(zt) == [t \in 1..Len(zt) |-> NanMean(zt[t])]

MaxZRows == 2
ZSamples == {NaN, Num(-1), Num(2)}
ColumnSets == SUBSET {POLLUTANTS[i] : i \in 1..Len(POLLUTANTS)}

(***************************************************************************)
(* 02_compute_features.py: the specification                               *)
(***************************************************************************)
InitFeatures ==
    /\ pc = "ready"
    /\ z = <<>>
    /\ dpbi = <<>>
    /\ \/ /\ call = "rolling_zscore"
          /\ \E k \in 0..MaxSeriesLen : series \in [1..k -> SeriesSamples]
          /\ window \in WindowChoices
          /\ min_periods \in MinPeriodsChoices
          /\ cols = <<>> /\ z_table = <<>>
       \/ /\ call = "main_dpbi"
          /\ \E columns \in ColumnSets : cols = PresentColumns(columns)
          /\ \E k \in 0..MaxZRows : z_table \in [1..k -> [1..Len(cols) -> ZSamples]]
          /\ series = <<>> /\ window = WINDOW /\ min_periods = MIN_PERIODS
    /\ IdlePrepare /\ IdleExtremes /\ IdleTrends /\ IdleStl

CallRollingZscore ==
    /\ call = "rolling_zscore" /\ pc = "ready"
    /\ RollingArgsValid(window, min_periods)
    /\ z' = RollingZscore(series, window, min_periods)
    /\ pc' = "done"
    /\ UNCHANGED <<call, series, window, min_periods, cols, z_table, dpbi>>
    /\ UNCHANGED notFeatureVars

\* The ValueError of s.rolling(...) leaves rolling_zscore without a result.
RollingZscoreRaises ==
    /\ call = "rolling_zscore" /\ pc = "ready"
    /\ ~RollingArgsValid(window, min_periods)
    /\ pc' = "raised"
    /\ UNCHANGED <<call, series, window, min_periods, z, cols, z_table, dpbi>>
    /\ UNCHANGED notFeatureVars

MainComputeDpbi ==
    /\ call = "main_dpbi" /\ pc = "ready"
    /\ dpbi' = ComputeDpbi(z_table)
    /\ pc' = "done"
    /\ UNCHANGED <<call, series, window, min_periods, z, cols, z_table>>
    /\ UNCHANGED notFeatureVars

NextFeatures == CallRollingZscore \/ RollingZscoreRaises \/ MainComputeDpbi

SpecFeatures == InitFeatures /\ [][NextFeatures]_vars

(***************************************************************************)
(* 02_compute_features.py: properties                                      *)
(***************************************************************************)
\* The rows of the trailing window of row t that hold a value: the last
\* `window` rows ending at t, none after t.
TrailingRows(t) ==
    {i \in 1..Len(series) : i <= t /\ i > t - window /\ series[i] # NaN}

RECURSIVE SumOfSeries(_)
SumOfSeries(S) ==
    IF S = {} THEN 0
    ELSE LET i == CHOOSE x \in S : TRUE
         IN  series[i][1] + SumOfSeries(S \ {i})

RECURSIVE SumOfSquares(_)
SumOfSquares(S) ==
    IF S = {} THEN 0
    ELSE LET i == CHOOSE x \in S : TRUE
         IN  series[i][1] * series[i][1] + SumOfSquares(S \ {i})

\* The reference z-score of row t (as sign(z) * z^2), in integers: with n
\* values of sum S and sum of squares Q in the trailing window, x - mean is
\* (n x - S) / n and the population variance is (n Q - S^2) / n^2.
ReferenceZ(t) ==
    LET W == TrailingRows(t)
        n == Cardinality(W)
        S == SumOfSeries(W)
        Q == SumOfSquares(W)
        a == n * series[t][1] - S
    IN  IF n < min_periods \/ n = 0 \/ series[t] = NaN THEN NaN
        ELSE IF n * Q - S * S = 0 THEN NaN
        ELSE Frac(Sign(a) * a * a, n * Q - S * S)

\* C2 as claimed: for every series, window and min_periods, rolling_zscore
\* returns the reference z-score at every row.
C2_Original ==
    (call = "rolling_zscore" /\ pc # "ready") =>
        /\ pc = "done"
        /\ DOMAIN z = 1..Len(series)
        /\ \A t \in 1..Len(series) : z[t] = ReferenceZ(t)

\* C2 as amended: for every series, every window >= 0 and every
\* min_periods with 0 <= min_periods <= window, rolling_zscore returns at
\* every row the reference z-score, which is null below min_periods
\* non-null values and null, never infinite, for a zero standard
\* deviation; for min_periods > window it raises and returns nothing.
C2_RollingZscore ==
    (call = "rolling_zscore" /\ pc # "ready") =>
        IF window >= 0 /\ min_periods >= 0 /\ min_periods <= window
        THEN /\ pc = "done"
             /\ DOMAIN z = 1..Len(series)
             /\ \A t \in 1..Len(series) :
                   z[t] = ReferenceZ(t) /\ z[t] # PosInf /\ z[t] # NegInf
        ELSE pc = "raised" /\ z = <<>>

\* C2 witness: one call whose result has a row short of min_periods, a row
\* whose window is constant (zero deviation, null result) and a row with
\* the z-score 1.
C2_Witness ==
    /\ call = "rolling_zscore" /\ pc = "done"
    /\ min_periods = 2 /\ window = 2
    /\ Len(series) >= 3
    /\ series[1] # NaN /\ z[1] = NaN
    /\ series[2] = series[1] /\ z[2] = NaN
    /\ series[3] # NaN /\ z[3] = Num(1)

\* The columns of row t of the z-score table that hold a value.
ValidColumns(t) == {c \in 1..Len(cols) : z_table[t][c] # NaN}

RECURSIVE SumOfZ(_, _)
SumOfZ(t, C) ==
    IF C = {} THEN 0
    ELSE LET c == CHOOSE x \in C : TRUE
         IN  z_table[t][c][1] + SumOfZ(t, C \ {c})

\* C3: for every day, DPBI is null exactly when every z-score of the day
\* is null, and otherwise is the sum of the day's non-null z-scores over
\* their number.
C3_DpbiMeanOfAvailable ==
    (call = "main_dpbi" /\ pc = "done") =>
        /\ DOMAIN dpbi = 1..Len(z_table)
        /\ \A t \in 1..Len(z_table) :
              LET C == ValidColumns(t)
              IN  /\ (dpbi[t] = NaN) <=> (C = {})
                  /\ C # {} =>
                        /\ dpbi[t][2] > 0
                        /\ dpbi[t][1] * Cardinality(C) = dpbi[t][2] * SumOfZ(t, C)

\* C3 witness: a day with one pollutant null and the others -1 and 2 has
\* the index 1/2, and a day with every pollutant null has a null index.
C3_Witness ==
    /\ call = "main_dpbi" /\ pc = "done"
    /\ Len(cols) = 3 /\ Len(z_table) = 2
    /\ z_table[1] = <<NaN, Num(-1), Num(2)>> /\ dpbi[1] = <<1, 2>>
    /\ z_table[2] = <<NaN, NaN, NaN>> /\ dpbi[2] = NaN

(***************************************************************************)
(* 03_extremes_sensitivity.py: mark_extremes                               *)
(***************************************************************************)
\* v with x put in before its first entry greater than x.
RECURSIVE Insert(_, _)
Insert(v, x) ==
    IF v = <<>> THEN <<x>>
    ELSE IF FGe(x, Head(v)) THEN <<Head(v)>> \o Insert(Tail(v), x)
    ELSE <<x>> \o v

\* The finite values v in ascending order.
RECURSIVE SortAscending(_)
SortAscending(v) ==
    IF v = <<>> THEN <<>> ELSE Insert(SortAscending(Tail(v)), Head(v))

\* The largest integer not above the non-negative fraction x.
Floor(x) == x[1] \div x[2]

\* Series.quantile(q), 0 <= q <= 1: over the sorted non-null values
\* v[0..n-1], the value at the position h = (n - 1) q, interpolated
\* linearly between v[floor(h)] and the next one; NaN when there is none.
Quantile(s, qq) ==
    LET v == SortAscending(NonNull(s))
        n == Len(v)
        h == FMul(Num(n - 1), qq)
        lo == Floor(h)
        hi == Min(lo + 1, n - 1)
        frac == FSub(h, Num(lo))
    IN  IF n = 0 THEN NaN
        ELSE FAdd(v[lo + 1], FMul(frac, FSub(v[hi + 1], v[lo + 1])))

\* A variant that takes the lower order statistic (interpolation='lower').
MarkExtremes_Lower(s, qq) ==
    LET v == SortAscending(NonNull(s))
        thr == IF v = <<>> THEN NaN ELSE v[Floor(FMul(Num(Len(v) - 1), qq)) + 1]
    IN  [t \in 1..Len(s) |->
            [value |-> s[t], is_high_extreme |-> FGe(s[t], thr), threshold |-> thr]]

MarkExtremes(s, qq) ==
    LET thr == Quantile(s, qq)
        flags == [t \in 1..Len(s) |-> FGe(s[t], thr)]
    IN  [t \in 1..Len(s) |->
            [value |-> s[t], is_high_extreme |-> flags[t], threshold |-> thr]]

MaxExtLen == 4
ExtSamples == {NaN, Num(10), Num(20), Num(50)}
QuantileChoices == {<<0, 1>>, <<1, 2>>, <<4, 5>>, <<9, 10>>, <<19, 20>>, <<39, 40>>, <<1, 1>>}

(***************************************************************************)
(* 03_extremes_sensitivity.py: yearly_counts                               *)
(***************************************************************************)
\* The calendar year of the day d days after 1 January of year y.
RECURSIVE YearFrom(_, _)
YearFrom(y, d) == IF d < DaysInYear(y) THEN y ELSE YearFrom(y + 1, d - DaysInYear(y))

\* flag_series.index.year: the year of a timestamp, which pandas holds as
\* time since 1970-01-01.
YearOf(date) == YearFrom(EpochYear, date)

\* The number of True values among the flags (a sum of booleans).
RECURSIVE SumFlags(_)
SumFlags(f) ==
    IF f = <<>> THEN 0 ELSE (IF Head(f) THEN 1 ELSE 0) + SumFlags(Tail(f))

\* The flags of the rows of year y, in order.
GroupFlags(fs, y) ==
    LET group == SelectSeq(fs, LAMBDA r : YearOf(r.date) = y)
    IN  [i \in 1..Len(group) |-> group[i].flag]

\* A variant that counts the rows of each year (groupby(...).count()).
YearlyCounts_RowCount(fs) ==
    [y \in {YearOf(fs[i].date) : i \in 1..Len(fs)} |-> Len(GroupFlags(fs, y))]

\* flag_series.groupby(flag_series.index.year).sum()
YearlyCounts(fs) ==
    [y \in {YearOf(fs[i].date) : i \in 1..Len(fs)} |-> SumFlags(GroupFlags(fs, y))]

MaxFlagRows == 3
\* 2021-12-31, 2022-01-01, 2024-02-29, 2024-12-31 and 2025-01-01 as days
\* since 1970-01-01.
DateSamples == {18992, 18993, 19782, 20088, 20089}
FlagRows == [date : DateSamples, flag : BOOLEAN]

(***************************************************************************)
(* 03_extremes_sensitivity.py: the specification                           *)
(***************************************************************************)
InitExtremes ==
    /\ pc = "ready"
    /\ extremes = <<>>
    /\ counts = <<>>
    /\ \/ /\ call = "mark_extremes"
          /\ \E k \in 0..MaxExtLen : ext_series \in [1..k -> ExtSamples]
          /\ q \in QuantileChoices
          /\ flag_series = <<>>
       \/ /\ call = "yearly_counts"
          /\ \E k \in 0..MaxFlagRows : flag_series \in [1..k -> FlagRows]
          /\ ext_series = <<>> /\ q = <<0, 1>>
    /\ IdlePrepare /\ IdleFeatures /\ IdleTrends /\ IdleStl

CallMarkExtremes ==
    /\ call = "mark_extremes" /\ pc = "ready"
    /\ extremes' = MarkExtremes(ext_series, q)
    /\ pc' = "done"
    /\ UNCHANGED <<call, ext_series, q, flag_series, counts>>
    /\ UNCHANGED notExtremeVars

CallYearlyCounts ==
    /\ call = "yearly_counts" /\ pc = "ready"
    /\ counts' = YearlyCounts(flag_series)
    /\ pc' = "done"
    /\ UNCHANGED <<call, ext_series, q, extremes, flag_series>>
    /\ UNCHANGED notExtremeVars

NextExtremes == CallMarkExtremes \/ CallYearlyCounts

SpecExtremes == InitExtremes /\ [][NextExtremes]_vars

(***************************************************************************)
(* 03_extremes_sensitivity.py: properties                                  *)
(***************************************************************************)
ExtValid == {i \in 1..Len(ext_series) : ext_series[i] # NaN}

\* The k-th smallest (k = 0, 1, ...) of the non-null values of ext_series:
\* the value with at most k values below it and more than k not above it.
OrderStatistic(k) ==
    LET x == CHOOSE i \in ExtValid :
                /\ Cardinality({j \in ExtValid : ext_series[j][1] < ext_series[i][1]}) <= k
                /\ Cardinality({j \in ExtValid : ext_series[j][1] <= ext_series[i][1]}) > k
    IN  ext_series[x][1]

\* The q-quantile with linear interpolation, in integers: with q = a / b
\* and n values, the position (n - 1) a / b has the whole part lo and the
\* remainder r, and the quantile is v[lo] + (r / b) (v[lo + 1] - v[lo]).
ReferenceThreshold ==
    LET n == Cardinality(ExtValid)
        lo == ((n - 1) * q[1]) \div q[2]
        r == ((n - 1) * q[1]) % q[2]
        vlo == OrderStatistic(lo)
        vhi == OrderStatistic(Min(lo + 1, n - 1))
    IN  IF n = 0 THEN NaN ELSE Frac(q[2] * vlo + r * (vhi - vlo), q[2])

\* C4: mark_extremes records on every row the one threshold, the
\* q-quantile of the non-null values with linear interpolation, and flags
\* exactly the days whose value is non-null and at least the threshold.
C4_MarkExtremes ==
    (call = "mark_extremes" /\ pc = "done") =>
        /\ DOMAIN extremes = 1..Len(ext_series)
        /\ \A t \in 1..Len(ext_series) :
              /\ extremes[t].threshold = ReferenceThreshold
              /\ extremes[t].value = ext_series[t]
              /\ extremes[t].is_high_extreme <=>
                    /\ ext_series[t] # NaN
                    /\ ReferenceThreshold # NaN
                    /\ ext_series[t][1] * ReferenceThreshold[2] >= ReferenceThreshold[1]

\* C4 witness: for the values 10, 20, 50 and a null day with q = 4/5 the
\* threshold is interpolated between 20 and 50 (38), and only the day with
\* 50 is flagged.
C4_Witness ==
    /\ call = "mark_extremes" /\ pc = "done"
    /\ q = <<4, 5>>
    /\ ext_series = <<Num(20), NaN, Num(50), Num(10)>>
    /\ \A t \in 1..4 : extremes[t].threshold = Num(38)
    /\ \A t \in 1..4 : extremes[t].is_high_extreme <=> t = 3

\* The calendar years of the model's dates, from their first days.
ReferenceYear(date) ==
    IF date < 18993 THEN 2021
    ELSE IF date < 19358 THEN 2022
    ELSE IF date < 19723 THEN 2023
    ELSE IF date < 20089 THEN 2024
    ELSE 2025

RECURSIVE SumOfCounts(_)
SumOfCounts(Y) ==
    IF Y = {} THEN 0
    ELSE LET y == CHOOSE x \in Y : TRUE IN counts[y] + SumOfCounts(Y \ {y})

\* C5: yearly_counts has one entry per calendar year with a row, the
\* entry of a year is the number of true flags dated in it, and the
\* entries sum to the number of true flags.
C5_YearlyCounts ==
    (call = "yearly_counts" /\ pc = "done") =>
        /\ DOMAIN counts = {ReferenceYear(flag_series[i].date) : i \in 1..Len(flag_series)}
        /\ \A y \in DOMAIN counts :
              counts[y] = Cardinality({i \in 1..Len(flag_series) :
                              flag_series[i].flag /\ ReferenceYear(flag_series[i].date) = y})
        /\ SumOfCounts(DOMAIN counts)
              = Cardinality({i \in 1..Len(flag_series) : flag_series[i].flag})

\* C5 witness: flags on 2024-12-31 (true), 2025-01-01 (true) and
\* 2024-02-29 (false) give the counts 1 for 2024 and 1 for 2025.
C5_Witness ==
    /\ call = "yearly_counts" /\ pc = "done"
    /\ flag_series = <<[date |-> 20088, flag |-> TRUE], [date |-> 20089, flag |-> TRUE],
                       [date |-> 19782, flag |-> FALSE]>>
    /\ DOMAIN counts = {2024, 2025}
    /\ counts[2024] = 1 /\ counts[2025] = 1

(***************************************************************************)
(* 04_trends.py: linear_slope                                              *)
(***************************************************************************)
\* series.dropna(): the rows [day, v] that hold a value, in order; the
\* index of the series is one timestamp per consecutive day.
RECURSIVE DropNa(_, _)
DropNa(s, day) ==
    IF s = <<>> THEN <<>>
    ELSE (IF IsNull(Head(s)) THEN <<>> ELSE <<[day |-> day, v |-> Head(s)]>>)
         \o DropNa(Tail(s), day + 1)

\* np.polyfit(x, y, 1)[0]: the least-squares slope of y on x,
\* (n Sxy - Sx Sy) / (n Sxx - Sx^2).
PolyfitSlope(x, y) ==
    LET n == Len(x)
        Sx == SumSeq(x)
        Sy == SumSeq(y)
        Sxy == SumSeq([i \in 1..n |-> FMul(x[i], y[i])])
        Sxx == SumSeq([i \in 1..n |-> FMul(x[i], x[i])])
    IN  FDiv(FSub(FMul(Num(n), Sxy), FMul(Sx, Sy)),
             FSub(FMul(Num(n), Sxx), FMul(Sx, Sx)))

\* A variant whose gate also refuses a series of exactly ten values.
LinearSlope_GateInclusive(s) ==
    LET y == DropNa(s, 0)
    IN  IF Len(y) <= MinTrendSamples THEN NaN
        ELSE LET x == [i \in 1..Len(y) |-> Num(y[i].day - y[1].day)]
             IN  PolyfitSlope(x, [i \in 1..Len(y) |-> y[i].v])

LinearSlope(s) ==
    LET y == DropNa(s, 0)
    IN  IF Len(y) < MinTrendSamples THEN NaN
        ELSE LET x == [i \in 1..Len(y) |-> Num(y[i].day - y[1].day)]
             IN  PolyfitSlope(x, [i \in 1..Len(y) |-> y[i].v])

(***************************************************************************)
(* 04_trends.py: kendall_tau                                               *)
(***************************************************************************)
\* Python's None, and a float the model does not compute (the p-value).
None == <<"None">>
SomeFloat == <<"float">>

\* a < b, a = b, a > b on finite floats as -1, 0, 1.
Compare(a, b) == Sign(a[1] * b[2] - b[1] * a[2])

\* scipy.stats.kendalltau(np.arange(n), y): tau-b, concordant minus
\* discordant pairs over sqrt(n0 (n0 - n2)) with n0 the number of pairs and
\* n2 the number of pairs tied in y; (nan, nan) when every pair is tied.
\* tau is carried as sign(tau) * tau^2.
KendallTauB(y) ==
    LET n == Len(y)
        pairs == {p \in (1..n) \X (1..n) : p[1] < p[2]}
        conc == Cardinality({p \in pairs : Compare(y[p[2]], y[p[1]]) = 1})
        disc == Cardinality({p \in pairs : Compare(y[p[2]], y[p[1]]) = -1})
        n0 == Cardinality(pairs)
        n2 == n0 - conc - disc
        S == conc - disc
    IN  IF n0 = n2 THEN <<NaN, NaN>>
        ELSE <<Frac(Sign(S) * S * S, n0 * (n0 - n2)), SomeFloat>>

\* The outcome of a call: whether it raised, and the value returned if not.
Returned(v) == [raised |-> FALSE, value |-> v]
Raised == [raised |-> TRUE, value |-> <<>>]

\* A variant whose handler catches the failed import only
\* (except ImportError), so that a failure of the call escapes.
KendallTau_ImportOnly(s, available, fails) ==
    IF ~available THEN Returned(<<None, None>>)
    ELSE LET y == DropNa(s, 0)
         IN  IF Len(y) < MinTrendSamples THEN Returned(<<None, None>>)
             ELSE IF fails THEN Raised
             ELSE Returned(KendallTauB([i \in 1..Len(y) |-> y[i].v]))

\* kendall_tau: `available` tells whether the import succeeds, `fails`
\* whether kendalltau raises once called; `except Exception` turns both
\* failures into (None, None).
KendallTau(s, available, fails) ==
    IF ~available THEN Returned(<<None, None>>)
    ELSE LET y == DropNa(s, 0)
         IN  IF Len(y) < MinTrendSamples THEN Returned(<<None, None>>)
             ELSE IF fails THEN Returned(<<None, None>>)
             ELSE Returned(KendallTauB([i \in 1..Len(y) |-> y[i].v]))

\* Whether kendall_tau gets as far as calling kendalltau.
ReachesKendalltau(s, available) ==
    available /\ Len(DropNa(s, 0)) >= MinTrendSamples

MaxTrendLen == 12
MaxNulls == 2
TrendShapes == {"constant", "ramp", "zigzag", "spike"}
ShapeValue(shape, i) ==
    CASE shape = "constant" -> Num(3)
      [] shape = "ramp" -> Num(2 * i)
      [] shape = "zigzag" -> Num(5 * (i % 2))
      [] shape = "spike" -> Num(IF i = 2 THEN 100 ELSE 0)

\* The series of a given length and shape with the days of `nulls` missing.
ShapedSeries(len, shape, nulls) ==
    [i \in 1..len |-> IF i \in nulls THEN NaN ELSE ShapeValue(shape, i)]

NullSets(len) == {N \in SUBSET (1..len) : Cardinality(N) <= MaxNulls}

(***************************************************************************)
(* 04_trends.py: main, the trend summary                                   *)
(***************************************************************************)
DpbiName == "DPBI"

\* cols + ["DPBI"]
TrackedSeries(c) == c \o <<DpbiName>>

\* The columns main may find: every day null, a long enough ramp, and a
\* ramp with too few values left.
MainColumnChoices ==
    {ShapedSeries(MaxTrendLen, "ramp", {}),
     [i \in 1..MaxTrendLen |-> NaN],
     ShapedSeries(MaxTrendLen, "ramp", 1..(MaxTrendLen - MinTrendSamples + 1))}

(***************************************************************************)
(* 04_trends.py: the specification                                         *)
(***************************************************************************)
InitTrends ==
    /\ pc = "ready"
    /\ slope = <<>> /\ kendall = <<>>
    /\ kendall_failed = {}
    /\ rows = <<>> /\ trend_summary = <<>>
    /\ scipy_available \in BOOLEAN
    /\ \/ /\ call \in {"linear_slope", "kendall_tau"}
          /\ \E len \in 0..MaxTrendLen : \E shape \in TrendShapes :
                \E nulls \in NullSets(len) :
                    trend_series = ShapedSeries(len, shape, nulls)
          /\ frame = <<>> /\ trend_cols = <<>>
       \/ /\ call = "main_trends"
          /\ \E columns \in ColumnSets : trend_cols = PresentColumns(columns)
          /\ frame \in [{TrackedSeries(trend_cols)[i] : i \in 1..(Len(trend_cols) + 1)}
                          -> MainColumnChoices]
          /\ trend_series = <<>>
    /\ IdlePrepare /\ IdleFeatures /\ IdleExtremes /\ IdleStl

CallLinearSlope ==
    /\ call = "linear_slope" /\ pc = "ready"
    /\ slope' = LinearSlope(trend_series)
    /\ pc' = "done"
    /\ UNCHANGED <<call, trend_series, kendall, scipy_available, kendall_failed,
                   frame, trend_cols, rows, trend_summary>>
    /\ UNCHANGED notTrendVars

CallKendallTau ==
    /\ call = "kendall_tau" /\ pc = "ready"
    /\ \E fails \in BOOLEAN :
          LET r == KendallTau(trend_series, scipy_available, fails)
          IN  /\ kendall' = r.value
              /\ pc' = IF r.raised THEN "raised" ELSE "done"
              /\ kendall_failed' =
                    IF fails /\ ReachesKendalltau(trend_series, scipy_available)
                    THEN {"series"} ELSE {}
    /\ UNCHANGED <<call, trend_series, slope, scipy_available,
                   frame, trend_cols, rows, trend_summary>>
    /\ UNCHANGED notTrendVars

\* One turn of the loop `for c in cols + ["DPBI"]`; an exception leaving
\* kendall_tau would end main before anything is written.
MainTrendRow ==
    /\ call = "main_trends" /\ pc = "ready"
    /\ Len(rows) < Len(TrackedSeries(trend_cols))
    /\ LET c == TrackedSeries(trend_cols)[Len(rows) + 1]
           s == frame[c]
       IN  \E fails \in BOOLEAN :
              LET r == KendallTau(s, scipy_available, fails)
              IN  /\ kendall_failed' =
                        IF fails /\ ReachesKendalltau(s, scipy_available)
                        THEN kendall_failed \cup {c} ELSE kendall_failed
                  /\ IF r.raised
                     THEN pc' = "raised" /\ rows' = rows
                     ELSE /\ pc' = pc
                          /\ rows' = Append(rows,
                                [series |-> c, slope_per_day |-> LinearSlope(s),
                                 kendall_tau |-> r.value[1], kendall_p |-> r.value[2]])
    /\ UNCHANGED <<call, trend_series, slope, kendall, scipy_available,
                   frame, trend_cols, trend_summary>>
    /\ UNCHANGED notTrendVars

\* out.to_csv(OUT_DATA / "trend_summary.csv") after the loop.
MainWriteSummary ==
    /\ call = "main_trends" /\ pc = "ready"
    /\ Len(rows) = Len(TrackedSeries(trend_cols))
    /\ trend_summary' = rows
    /\ pc' = "done"
    /\ UNCHANGED <<call, trend_series, slope, kendall, scipy_available, kendall_failed,
                   frame, trend_cols, rows>>
    /\ UNCHANGED notTrendVars

NextTrends == CallLinearSlope \/ CallKendallTau \/ MainTrendRow \/ MainWriteSummary

SpecTrends == InitTrends /\ [][NextTrends]_vars

(***************************************************************************)
(* 04_trends.py: properties                                                *)
(***************************************************************************)
\* The days of trend_series that hold a value.
TrendDays == {i \in 1..Len(trend_series) : trend_series[i] # NaN}

RECURSIVE SumOver(_, _)
SumOver(S, f) ==
    IF S = {} THEN 0
    ELSE LET i == CHOOSE x \in S : TRUE IN f[i] + SumOver(S \ {i}, f)

\* Whether m is the least-squares slope of the values on the days elapsed
\* since the first non-null day: with X and Y the deviations of the days
\* and of the values from their means (each times n), sum(X Y) = m sum(X X).
IsLeastSquaresSlope(m) ==
    LET D == TrendDays
        n == Cardinality(D)
        first == Least(D)
        elapsed == [i \in D |-> i - first]
        value == [i \in D |-> trend_series[i][1]]
        X == [i \in D |-> n * elapsed[i] - SumOver(D, elapsed)]
        Y == [i \in D |-> n * value[i] - SumOver(D, value)]
    IN  /\ IsFinite(m)
        /\ m[2] * SumOver(D, [i \in D |-> X[i] * Y[i]])
              = m[1] * SumOver(D, [i \in D |-> X[i] * X[i]])

\* C6: with fewer than 10 non-null values linear_slope returns NaN and
\* kendall_tau returns (None, None), neither raising; with 10 or more,
\* linear_slope returns the least-squares slope of the non-null points on
\* the whole days elapsed since the first non-null observation.
C6_MinimumSampleGate ==
    /\ (call = "linear_slope" /\ pc # "ready") =>
          /\ pc = "done"
          /\ IF Cardinality(TrendDays) < 10
             THEN slope = NaN
             ELSE IsLeastSquaresSlope(slope)
    /\ (call = "kendall_tau" /\ pc # "ready") =>
          /\ pc = "done"
          /\ Cardinality(TrendDays) < 10 => kendall = <<None, None>>

\* C6 witness: eleven days of which two are null leave nine values, and
\* linear_slope returns NaN.
C6_Witness ==
    /\ call = "linear_slope" /\ pc = "done"
    /\ Len(trend_series) = 11 /\ Cardinality(TrendDays) = 9
    /\ slope = NaN

\* C7: kendall_tau never raises: when scipy cannot be imported or the call
\* of kendalltau fails it returns (None, None); main is never stopped on
\* its way through the tracked series and writes one row for each
\* pollutant present and one for DPBI.
C7_KendallNeverRaises ==
    /\ pc # "raised"
    /\ (call = "kendall_tau" /\ pc = "done"
            /\ (~scipy_available \/ kendall_failed # {})) => kendall = <<None, None>>
    /\ (call = "main_trends" /\ pc = "ready") =>
          /\ Len(rows) <= Len(trend_cols) + 1
          /\ trend_summary = <<>>
    /\ (call = "main_trends" /\ pc = "done") =>
          /\ Len(trend_summary) = Len(trend_cols) + 1
          /\ \A i \in 1..Len(trend_cols) : trend_summary[i].series = trend_cols[i]
          /\ trend_summary[Len(trend_cols) + 1].series = "DPBI"
          /\ \A i \in 1..Len(trend_summary) :
                (~scipy_available \/ trend_summary[i].series \in kendall_failed) =>
                    /\ trend_summary[i].kendall_tau = None
                    /\ trend_summary[i].kendall_p = None

\* C7 witness: main has written its five rows although the call of
\* kendalltau failed on DPBI; that row holds None, another one a tau.
C7_Witness ==
    /\ call = "main_trends" /\ pc = "done"
    /\ scipy_available /\ "DPBI" \in kendall_failed
    /\ Len(trend_summary) = 5
    /\ trend_summary[5].kendall_tau = None /\ trend_summary[5].kendall_p = None
    /\ trend_summary[1].kendall_tau = Num(1)

(***************************************************************************)
(* 06_stl_decomposition.py: stl_one_series                                 *)
(***************************************************************************)
\* v with the row r put in before its first row of a later timestamp.
RECURSIVE InsertRow(_, _)
InsertRow(v, r) ==
    IF v = <<>> THEN <<r>>
    ELSE IF Head(v).t <= r.t THEN <<Head(v)>> \o InsertRow(Tail(v), r)
    ELSE <<r>> \o v

\* s.sort_index()
RECURSIVE SortIndex(_)
SortIndex(s) == IF s = <<>> THEN <<>> ELSE InsertRow(SortIndex(Tail(s)), Head(s))

\* s.dropna()
DropNaRows(s) == SelectSeq(s, LAMBDA r : ~IsNull(r.v))

\* A variant that tests the length of the series as passed in, nulls
\* included.
StlPeriod_RawLength(s, period) ==
    IF Len(s) < period * 2
    THEN Max(MinPeriod, Min(period, Len(s) \div 2))
    ELSE period

\* The period handed to STL for the series s as passed in: the length
\* tested is that of s.sort_index().dropna().
StlPeriod(s, period) ==
    LET n == Len(DropNaRows(SortIndex(s)))
    IN  IF n < period * 2
        THEN Max(MinPeriod, Min(period, n \div 2))
        ELSE period

\* STL(s, period=period, robust=True).fit() is statsmodels' code.  Of its
\* result the model keeps what the interface fixes: trend, seasonal and
\* resid are series on the index of s, and resid is s - seasonal - trend.
\* The smoother's own numbers are one of two stand-ins chosen by `fit`.
StlFit(y, fit) ==
    LET trend == [i \in 1..Len(y) |->
                    [t |-> y[i].t,
                     v |-> IF fit = "trend_only" THEN y[i].v ELSE FDiv(y[i].v, Num(2))]]
        seasonal == [i \in 1..Len(y) |->
                    [t |-> y[i].t,
                     v |-> IF fit = "trend_only" THEN Num(0)
                           ELSE Num(IF i % 2 = 0 THEN 1 ELSE -1)]]
        resid == [i \in 1..Len(y) |->
                    [t |-> y[i].t, v |-> FSub(FSub(y[i].v, seasonal[i].v), trend[i].v)]]
    IN  [trend |-> trend, seasonal |-> seasonal, resid |-> resid]

\* STL refuses a period below 2.
StlAccepts(period) == period >= 2

\* The index of a series, and its value at a timestamp (NaN when absent).
IndexOf(s) == [i \in 1..Len(s) |-> s[i].t]
ValueAt(s, t) ==
    IF \E i \in 1..Len(s) : s[i].t = t
    THEN s[CHOOSE i \in 1..Len(s) : s[i].t = t].v
    ELSE NaN

\* The timestamps of a set in ascending order.
RECURSIVE Ascending(_)
Ascending(T) ==
    IF T = {} THEN <<>>
    ELSE LET m == CHOOSE x \in T : \A y \in T : x <= y
         IN  <<m>> \o Ascending(T \ {m})

\* pd.DataFrame({"value": ..., "trend": ..., "seasonal": ..., "resid": ...}):
\* the columns are aligned on their indexes; equal indexes are kept as they
\* are, different ones are united and sorted, with NaN where a column has
\* no row.
ComponentsFrame(value, trend, seasonal, resid) ==
    LET same == /\ IndexOf(trend) = IndexOf(value)
                /\ IndexOf(seasonal) = IndexOf(value)
                /\ IndexOf(resid) = IndexOf(value)
        all == {value[i].t : i \in 1..Len(value)} \cup {trend[i].t : i \in 1..Len(trend)}
                 \cup {seasonal[i].t : i \in 1..Len(seasonal)}
                 \cup {resid[i].t : i \in 1..Len(resid)}
        idx == IF same THEN IndexOf(value) ELSE Ascending(all)
    IN  [i \in 1..Len(idx) |->
            [t |-> idx[i],
             value |-> ValueAt(value, idx[i]),
             trend |-> ValueAt(trend, idx[i]),
             seasonal |-> ValueAt(seasonal, idx[i]),
             resid |-> ValueAt(resid, idx[i])]]

\* A variant that puts the series as passed in, unsorted and with its
\* nulls, into the value column.
StlOneSeries_RawValue(s, period, fit) ==
    LET res == StlFit(DropNaRows(SortIndex(s)), fit)
    IN  ComponentsFrame(s, res.trend, res.seasonal, res.resid)

\* stl_one_series when STL succeeds: the table returned.
StlOneSeries(s, period, fit) ==
    LET y == DropNaRows(SortIndex(s))
        res == StlFit(y, fit)
    IN  ComponentsFrame(y, res.trend, res.seasonal, res.resid)

MaxStlLen == 18
MaxStlNulls == 1
StlOrders == {"sorted", "reversed"}
PeriodChoices == {1, 3, 7, 8, 9, YearPeriod, FullPeriod}
FitChoices == {"trend_only", "split"}

\* The series of `len` consecutive days 1..len with the days of `nulls`
\* null, in ascending or descending order of its index.
StlSeries(len, nulls, order) ==
    [i \in 1..len |->
        LET day == IF order = "sorted" THEN i ELSE len + 1 - i
        IN  [t |-> day, v |-> IF day \in nulls THEN NaN ELSE Num(10 * day + (day % 3))]]

StlNullSets(len) == {N \in SUBSET (1..len) : Cardinality(N) <= MaxStlNulls}

(***************************************************************************)
(* 06_stl_decomposition.py: main                                           *)
(***************************************************************************)
\* dpbi = df["DPBI"].sort_index().dropna()
CleanDpbi(csv) == DropNaRows(SortIndex(csv))

\* A variant that tests the column as read, before the nulls are dropped.
DpbiEmpty_AsRead(csv) == csv = <<>>

\* dpbi.empty
DpbiEmpty(csv) == CleanDpbi(csv) = <<>>

\* sorted(dpbi.index.year.unique())
DpbiYears(s) == Ascending({YearOf(s[i].t) : i \in 1..Len(s)})

\* dpbi[dpbi.index.year == year]
YearSlice(s, year) == SelectSeq(s, LAMBDA r : YearOf(r.t) = year)

MaxDpbiLen == 62
\* 2021-01-01 and 2021-12-30 as days since 1970-01-01.
DpbiStarts == {18628, 18991}
NullPatterns == {"none", "first", "all"}

\* The DPBI column of `len` consecutive days from `start`, null on the days
\* the pattern names, in ascending or descending order of the index.
DpbiColumn(start, len, pattern, order) ==
    [i \in 1..len |->
        LET k == IF order = "sorted" THEN i ELSE len + 1 - i
            null == pattern = "all" \/ (pattern = "first" /\ k = 1)
        IN  [t |-> start + k - 1, v |-> IF null THEN NaN ELSE Num(10 + (k % 7))]]

(***************************************************************************)
(* 06_stl_decomposition.py: the specification                              *)
(***************************************************************************)
InitStl ==
    /\ pc = "ready"
    /\ stl_period = 0
    /\ components = <<>>
    /\ years_left = <<>> /\ written = {} /\ stl_error = ""
    /\ \/ /\ call = "stl_one_series"
          /\ \E len \in 0..MaxStlLen : \E nulls \in StlNullSets(len) : \E order \in StlOrders :
                stl_input = StlSeries(len, nulls, order)
          /\ period_arg \in PeriodChoices
          /\ dpbi_csv = <<>>
       \/ /\ call = "main_stl"
          /\ \E start \in DpbiStarts : \E len \in 0..MaxDpbiLen :
             \E pattern \in NullPatterns : \E order \in StlOrders :
                dpbi_csv = DpbiColumn(start, len, pattern, order)
          /\ stl_input = <<>>
          /\ period_arg = FullPeriod
    /\ IdlePrepare /\ IdleFeatures /\ IdleExtremes /\ IdleTrends

\* stl_one_series returns: STL took the period and the fit went through.
CallStlOneSeries ==
    /\ call = "stl_one_series" /\ pc = "ready"
    /\ StlAccepts(StlPeriod(stl_input, period_arg))
    /\ \E fit \in FitChoices :
          components' = StlOneSeries(stl_input, period_arg, fit)
    /\ stl_period' = StlPeriod(stl_input, period_arg)
    /\ pc' = "done"
    /\ UNCHANGED <<call, stl_input, period_arg, dpbi_csv, years_left, written, stl_error>>
    /\ UNCHANGED notStlVars

\* stl_one_series raises: STL refused the period or the series, or the
\* fit failed; nothing is returned.
StlOneSeriesRaises ==
    /\ call = "stl_one_series" /\ pc = "ready"
    /\ stl_period' = StlPeriod(stl_input, period_arg)
    /\ pc' = "raised"
    /\ UNCHANGED <<call, stl_input, period_arg, components,
                   dpbi_csv, years_left, written, stl_error>>
    /\ UNCHANGED notStlVars

\* main, lines 66-67: the cleaned series is empty, main raises ValueError.
MainEmptyRaises ==
    /\ call = "main_stl" /\ pc = "ready"
    /\ DpbiEmpty(dpbi_csv)
    /\ stl_error' = "ValueError"
    /\ pc' = "raised"
    /\ UNCHANGED <<call, stl_input, period_arg, stl_period, components,
                   dpbi_csv, years_left, written>>
    /\ UNCHANGED notStlVars

\* main, lines 70-79: the full-period decomposition, its table and its
\* figure, and the years of the loop.
MainFullStl ==
    /\ call = "main_stl" /\ pc = "ready"
    /\ ~DpbiEmpty(dpbi_csv)
    /\ StlAccepts(StlPeriod(CleanDpbi(dpbi_csv), FullPeriod))
    /\ stl_input' = CleanDpbi(dpbi_csv)
    /\ period_arg' = FullPeriod
    /\ stl_period' = StlPeriod(CleanDpbi(dpbi_csv), FullPeriod)
    /\ \E fit \in FitChoices :
          components' = StlOneSeries(CleanDpbi(dpbi_csv), FullPeriod, fit)
    /\ written' = written \cup {[kind |-> "components", year |-> 0],
                                [kind |-> "figure", year |-> 0]}
    /\ years_left' = DpbiYears(CleanDpbi(dpbi_csv))
    /\ pc' = "years"
    /\ UNCHANGED <<call, dpbi_csv, stl_error>>
    /\ UNCHANGED notStlVars

\* main, line 82-85: a year with fewer than 60 points is skipped.
MainYearSkip ==
    /\ call = "main_stl" /\ pc = "years" /\ years_left # <<>>
    /\ Len(YearSlice(CleanDpbi(dpbi_csv), Head(years_left))) < MinYearSamples
    /\ years_left' = Tail(years_left)
    /\ UNCHANGED <<call, pc, stl_input, period_arg, stl_period, components,
                   dpbi_csv, written, stl_error>>
    /\ UNCHANGED notStlVars

\* main, lines 89-97: the decomposition of one year, its table and figure.
MainYearStl ==
    /\ call = "main_stl" /\ pc = "years" /\ years_left # <<>>
    /\ LET year == Head(years_left)
           s_year == YearSlice(CleanDpbi(dpbi_csv), year)
       IN  /\ Len(s_year) >= MinYearSamples
           /\ StlAccepts(StlPeriod(s_year, YearPeriod))
           /\ stl_input' = s_year
           /\ period_arg' = YearPeriod
           /\ stl_period' = StlPeriod(s_year, YearPeriod)
           /\ \E fit \in FitChoices : components' = StlOneSeries(s_year, YearPeriod, fit)
           /\ written' = written \cup {[kind |-> "components", year |-> year],
                                       [kind |-> "figure", year |-> year]}
    /\ years_left' = Tail(years_left)
    /\ UNCHANGED <<call, pc, dpbi_csv, stl_error>>
    /\ UNCHANGED notStlVars

\* main, lines 70 and 90: stl_one_series raises (STL refused the series or
\* the fit failed), which ends main.
MainStlRaises ==
    /\ call = "main_stl"
    /\ \/ pc = "ready" /\ ~DpbiEmpty(dpbi_csv)
       \/ /\ pc = "years" /\ years_left # <<>>
          /\ Len(YearSlice(CleanDpbi(dpbi_csv), Head(years_left))) >= MinYearSamples
    /\ stl_error' = "STL"
    /\ pc' = "raised"
    /\ UNCHANGED <<call, stl_input, period_arg, stl_period, components,
                   dpbi_csv, years_left, written>>
    /\ UNCHANGED notStlVars

\* main, lines 99-103: the loop is over.
MainStlDone ==
    /\ call = "main_stl" /\ pc = "years" /\ years_left = <<>>
    /\ pc' = "done"
    /\ UNCHANGED <<call, stlVars>>
    /\ UNCHANGED notStlVars

NextStl ==
    \/ CallStlOneSeries \/ StlOneSeriesRaises
    \/ MainEmptyRaises \/ MainFullStl \/ MainYearSkip \/ MainYearStl
    \/ MainStlRaises \/ MainStlDone

SpecStl == InitStl /\ [][NextStl]_vars

(***************************************************************************)
(* 06_stl_decomposition.py: properties                                     *)
(***************************************************************************)
\* The rows of stl_input that hold a value.
StlValidRows == {i \in 1..Len(stl_input) : stl_input[i].v # NaN}

\* C8: the table of a successful decomposition has one row per non-null
\* timestamp of the input, in ascending order and no other row; its value
\* column is the input's value at that timestamp; and trend + seasonal +
\* resid is that value at every row.
C8_StlRoundTrip ==
    (call = "stl_one_series" /\ pc = "done") =>
        /\ Len(components) = Cardinality(StlValidRows)
        /\ \A i \in 1..Len(components) : \A j \in 1..Len(components) :
              i < j => components[i].t < components[j].t
        /\ \A i \in 1..Len(components) :
              /\ \E k \in StlValidRows :
                    /\ stl_input[k].t = components[i].t
                    /\ stl_input[k].v = components[i].value
              /\ FAdd(FAdd(components[i].trend, components[i].seasonal),
                      components[i].resid) = components[i].value

\* C8 witness: a series passed in descending order with one null day comes
\* back with one row less, in ascending order, the residual not all zero.
C8_Witness ==
    /\ call = "stl_one_series" /\ pc = "done"
    /\ Len(stl_input) = 4 /\ Cardinality(StlValidRows) = 3
    /\ stl_input[1].t > stl_input[4].t
    /\ Len(components) = 3
    /\ components[1].t < components[3].t
    /\ components[1].resid # Num(0)

\* C9: with n the number of non-null samples, STL gets the requested
\* period when n >= 2 * period, and otherwise the smaller of the period and
\* n // 2, raised to 7 when that is below 7.
C9_PeriodFallback ==
    (call = "stl_one_series" /\ pc # "ready") =>
        LET n == Cardinality(StlValidRows)
            half == n \div 2
            smaller == IF period_arg <= half THEN period_arg ELSE half
        IN  IF n >= 2 * period_arg
            THEN stl_period = period_arg
            ELSE stl_period = (IF smaller >= 7 THEN smaller ELSE 7)

\* C9 witness: sixteen days of which one is null leave n = 15 < 2 * 8, and
\* STL runs with the period 7 (the 16 rows passed in would have kept 8).
C9_Witness ==
    /\ call = "stl_one_series" /\ pc = "done"
    /\ Len(stl_input) = 16 /\ Cardinality(StlValidRows) = 15
    /\ period_arg = 8
    /\ stl_period = 7
    /\ Len(components) = 15

\* C14: the period handed to the decomposition is never above the period
\* requested.
C14_OnlyShrinks ==
    (call = "stl_one_series" /\ pc # "ready") => stl_period <= period_arg

\* The rows of the DPBI column that hold a value.
DpbiValidRows == {i \in 1..Len(dpbi_csv) : dpbi_csv[i].v # NaN}

\* C12: when the DPBI column has no non-null value, main ends with the
\* ValueError before STL is constructed, and no table and no figure, full
\* or per-year, is written.
C12_EmptySeriesIsFatal ==
    (call = "main_stl" /\ DpbiValidRows = {}) =>
        /\ written = {}
        /\ stl_period = 0 /\ components = <<>>
        /\ pc \in {"ready", "raised"}
        /\ pc = "raised" => stl_error = "ValueError"

\* C12 witness: a column of three days, all null, has ended main with the
\* ValueError and nothing written.
C12_Witness ==
    /\ call = "main_stl" /\ pc = "raised"
    /\ Len(dpbi_csv) = 3 /\ DpbiValidRows = {}
    /\ stl_error = "ValueError"
    /\ written = {}

====
